---- MODULE Spec2Model ----
(***************************************************************************)
(* Model of the lossless WebP encoder of src/codecs/webp/encoder.rs:       *)
(* the bit packer (write_bits, flush), the two Huffman-tree writers and    *)
(* encode_lossless with its RIFF framing.                                  *)
(*                                                                         *)
(* A u64 is modelled as the set of its set bit positions (a subset of      *)
(* 0..63): shifts, ors and to_le_bytes are computed on that set, so the    *)
(* full 64-bit width of the accumulator is kept.  A byte is a number in    *)
(* 0..255 and a byte vector is a sequence of bytes.                        *)
(*                                                                         *)
(* The lossy path (encode, lines 266-307) calls the external libwebp       *)
(* encoder and is not modelled.  The sink is a Vec<u8>, whose write_all    *)
(* never fails.                                                            *)
(***************************************************************************)
EXTENDS Integers, Sequences

VARIABLES
    pc,            \* position of the call: "new", "trees", "pixels", "done"; "packer" in SpecPacker
    chunk_buffer,  \* WebPEncoder.chunk_buffer
    buffer,        \* WebPEncoder.buffer, the set of set bits of the u64
    nbits,         \* WebPEncoder.nbits
    inner,         \* WebPEncoder.inner, the bytes the sink has received
    result,        \* what the call returned: "none" while running
    data,          \* argument of encode_lossless
    width,         \* argument of encode_lossless
    height,        \* argument of encode_lossless
    color,         \* argument of encode (color / color_type)
    i,             \* number of pixel-loop iterations done
    calls          \* SpecPacker: the packer calls made so far

vars == <<pc, chunk_buffer, buffer, nbits, inner, result, data, width, height, color, i, calls>>

----------------------------------------------------------------------------
(* Bounds of the model *)

\* sides of the small images are 0..MaxDim
MaxDim == 2
\* small pixel buffers have 0..MaxLen bytes
MaxLen == 6
\* number of packer calls in SpecPacker
MaxCalls == 3
\* SpecHeld makes calls while the chunk has fewer than MaxChunk bytes
MaxChunk == 8

----------------------------------------------------------------------------
(* 64-bit words and bytes *)

Pow2(k) == 2 ^ k

\* `x as u64` for a number 0 <= x < 2^31
U64(x) == {b \in 0..30 : (x \div Pow2(b)) % 2 = 1}

\* u64 `x << k` for k < 64: the bits shifted past position 63 are lost
Shl(x, k) == {b + k : b \in {c \in x : c + k <= 63}}

\* u64::checked_shr(k).unwrap_or(0): None, hence 0, when k >= 64
CheckedShrOr0(x, k) == IF k >= 64 THEN {} ELSE {b - k : b \in {c \in x : c >= k}}

\* byte j (0-based) of u64::to_le_bytes
ByteOf(x, j) ==
    LET bit(k) == IF (8 * j + k) \in x THEN Pow2(k) ELSE 0
    IN  bit(0) + bit(1) + bit(2) + bit(3) + bit(4) + bit(5) + bit(6) + bit(7)

\* u64::to_le_bytes
ToLeBytes64(x) == [j \in 1..8 |-> ByteOf(x, j - 1)]

\* u32::to_le_bytes
ToLeBytes32(x) == [j \in 1..4 |-> (x \div Pow2(8 * (j - 1))) % 256]

\* u8::reverse_bits
ReverseBits(x) ==
    LET bit(k) == IF (x \div Pow2(k)) % 2 = 1 THEN Pow2(7 - k) ELSE 0
    IN  bit(0) + bit(1) + bit(2) + bit(3) + bit(4) + bit(5) + bit(6) + bit(7)

----------------------------------------------------------------------------
(* The bit packer: the fields chunk_buffer, buffer, nbits of WebPEncoder *)

\* the packer of new_with_quality
NewPacker == [chunk_buffer |-> <<>>, buffer |-> {}, nbits |-> 0]

\* the packer held in the state
Packer == [chunk_buffer |-> chunk_buffer, buffer |-> buffer, nbits |-> nbits]

\* write_bits with the comparison `self.nbits > 64` in place of `>= 64`
write_bits_gt(p0, bits, n) ==
    CHOOSE r \in
      { LET buf1 == p.buffer \cup Shl(bits, p.nbits)
            n1   == (p.nbits + n) % 256
        IN  IF n1 > 64
            THEN [chunk_buffer |-> p.chunk_buffer \o ToLeBytes64(buf1),
                  buffer       |-> CheckedShrOr0(bits, n - (n1 - 64)),
                  nbits        |-> n1 - 64]
            ELSE [chunk_buffer |-> p.chunk_buffer, buffer |-> buf1, nbits |-> n1]
        : p \in {p0} } : TRUE

\* write_bits that drops the bits carried over a 64-bit boundary
write_bits_nocarry(p0, bits, n) ==
    CHOOSE r \in
      { LET buf1 == p.buffer \cup Shl(bits, p.nbits)
            n1   == (p.nbits + n) % 256
        IN  IF n1 >= 64
            THEN [chunk_buffer |-> p.chunk_buffer \o ToLeBytes64(buf1),
                  buffer       |-> {},
                  nbits        |-> n1 - 64]
            ELSE [chunk_buffer |-> p.chunk_buffer, buffer |-> buf1, nbits |-> n1]
        : p \in {p0} } : TRUE

\* write_bits(bits, nbits): n1 is the u8 sum self.nbits + nbits.  The packer argument is
\* bound once (p \in {p0}), so that a chain of calls is evaluated once per call.
write_bits(p0, bits, n) ==
    CHOOSE r \in
      { LET buf1 == p.buffer \cup Shl(bits, p.nbits)
            n1   == (p.nbits + n) % 256
        IN  IF n1 >= 64
            THEN [chunk_buffer |-> p.chunk_buffer \o ToLeBytes64(buf1),
                  buffer       |-> CheckedShrOr0(bits, n - (n1 - 64)),
                  nbits        |-> n1 - 64]
            ELSE [chunk_buffer |-> p.chunk_buffer, buffer |-> buf1, nbits |-> n1]
        : p \in {p0} } : TRUE

\* flush
flush(p0) ==
    CHOOSE r \in
      { IF p1.nbits > 0
        THEN [chunk_buffer |-> p1.chunk_buffer
                                \o SubSeq(ToLeBytes64(p1.buffer), 1, p1.nbits \div 8),
              buffer       |-> {},
              nbits        |-> 0]
        ELSE p1
        : p1 \in {IF p.nbits % 8 # 0 THEN write_bits(p, {}, 8 - (p.nbits % 8)) ELSE p
                     : p \in {p0}} } : TRUE

\* A run of write_bits calls, each `self.write_bits(value, width)?` with a value below 2^31,
\* given as the sequence of its <<value, width>> pairs.  The run is split in two halves and
\* the packer between them is bound before the second half starts.
RECURSIVE WriteAll(_, _)
WriteAll(p0, fs) ==
    IF Len(fs) = 0 THEN p0
    ELSE IF Len(fs) = 1 THEN write_bits(p0, U64(fs[1][1]), fs[1][2])
    ELSE CHOOSE r \in
           { WriteAll(p, SubSeq(fs, Len(fs) \div 2 + 1, Len(fs)))
             : p \in {WriteAll(p0, SubSeq(fs, 1, Len(fs) \div 2))} } : TRUE

\* the write_bits calls of write_single_entry_huffman_tree(symbol)
SingleEntryFields(symbol) ==
    <<  <<1, 2>>  >>
    \o (IF symbol <= 1
        THEN << <<0, 1>>, <<symbol, 1>> >>
        ELSE << <<1, 1>>, <<symbol, 8>> >>)

\* write_single_entry_huffman_tree(symbol)
write_single_entry_huffman_tree(p, symbol) == WriteAll(p, SingleEntryFields(symbol))

\* the write_bits calls of write_flat_huffman_tree with ten zero code lengths, not eleven
FlatFields_ten ==
    << <<0, 1>>, <<8, 4>> >>
    \o [k \in 1..10 |-> <<0, 3>>]
    \o << <<1, 3>> >>
    \o << <<1, 1>>, <<3, 3>>, <<254, 8>> >>

\* the write_bits calls of write_flat_huffman_tree
FlatFields ==
    << <<0, 1>>, <<8, 4>> >>
    \o [k \in 1..11 |-> <<0, 3>>]
    \o << <<1, 3>> >>
    \o << <<1, 1>>, <<3, 3>>, <<254, 8>> >>

\* write_flat_huffman_tree
write_flat_huffman_tree(p) == WriteAll(p, FlatFields)

----------------------------------------------------------------------------
(* SpecPacker: the packer driven by arbitrary calls *)

\* widths of the write_bits calls: 0, 1, the byte and the 64-bit boundaries
Widths == {0, 1, 8, 33, 57, 63, 64}

\* bit patterns of the values written
Patterns == {0..63, {b \in 0..63 : b % 3 = 0}}

\* the low n bits of a u64
LowBits(x, n) == {b \in x : b < n}

InitPacker ==
    /\ pc = "packer"
    /\ chunk_buffer = <<>> /\ buffer = {} /\ nbits = 0
    /\ inner = <<>> /\ result = "none"
    /\ data = <<>> /\ width = 0 /\ height = 0 /\ color = "none" /\ i = 0
    /\ calls = <<>>

SetPacker(p) ==
    /\ chunk_buffer' = p.chunk_buffer
    /\ buffer' = p.buffer
    /\ nbits' = p.nbits

\* a call write_bits(bits, n); the value either fits n bits or has bits above n
CallWriteBits ==
    /\ pc = "packer" /\ Len(calls) < MaxCalls
    /\ \E n \in Widths, pat \in Patterns, fit \in BOOLEAN :
         LET bits == IF fit THEN LowBits(pat, n) ELSE pat
         IN  /\ SetPacker(write_bits(Packer, bits, n))
             /\ calls' = Append(calls, [op |-> "write_bits", bits |-> bits, nbits |-> n])
    /\ UNCHANGED <<pc, inner, result, data, width, height, color, i>>

\* a call flush()
CallFlush ==
    /\ pc = "packer" /\ Len(calls) < MaxCalls
    /\ SetPacker(flush(Packer))
    /\ calls' = Append(calls, [op |-> "flush", bits |-> {}, nbits |-> 0])
    /\ UNCHANGED <<pc, inner, result, data, width, height, color, i>>

\* a call write_flat_huffman_tree()
CallWriteFlat ==
    /\ pc = "packer" /\ Len(calls) < MaxCalls
    /\ SetPacker(write_flat_huffman_tree(Packer))
    /\ calls' = Append(calls, [op |-> "flat", bits |-> {}, nbits |-> 0])
    /\ UNCHANGED <<pc, inner, result, data, width, height, color, i>>

NextPacker == CallWriteBits \/ CallFlush \/ CallWriteFlat

SpecPacker == InitPacker /\ [][NextPacker]_vars

----------------------------------------------------------------------------
(* SpecHeld: any interleaving of write_bits with every width 0..64 and flush. *)
(* calls holds the last call only, so that runs of any length are explored.   *)

\* a call write_bits(0, n) with n in 0..64: the counts do not depend on the value
HeldWriteBits ==
    /\ pc = "packer" /\ Len(chunk_buffer) < MaxChunk
    /\ \E n \in 0..64 :
         /\ SetPacker(write_bits(Packer, {}, n))
         /\ calls' = <<[op |-> "write_bits", bits |-> {}, nbits |-> n]>>
    /\ UNCHANGED <<pc, inner, result, data, width, height, color, i>>

\* a call flush()
HeldFlush ==
    /\ pc = "packer" /\ Len(chunk_buffer) < MaxChunk
    /\ SetPacker(flush(Packer))
    /\ calls' = <<[op |-> "flush", bits |-> {}, nbits |-> 0]>>
    /\ UNCHANGED <<pc, inner, result, data, width, height, color, i>>

NextHeld == HeldWriteBits \/ HeldFlush

SpecHeld == InitPacker /\ [][NextHeld]_vars

----------------------------------------------------------------------------
(* The logical bitstream *)

\* bit k (from 0) of a byte sequence, least significant bit of each byte first
BitAt(bytes, k) == (bytes[k \div 8 + 1] \div Pow2(k % 8)) % 2

\* the bits of a byte sequence
BitsOfBytes(bytes) == [k \in 1..(8 * Len(bytes)) |-> BitAt(bytes, k - 1)]

\* the low n bits of a u64, least significant first
BitsOfWord(x, n) == [k \in 1..n |-> IF (k - 1) \in x THEN 1 ELSE 0]

\* the bits a packer holds: those of the chunk, then the nbits held in the accumulator
StreamOf(p) == BitsOfBytes(p.chunk_buffer) \o BitsOfWord(p.buffer, p.nbits)

\* the field of `w` bits holding the number v, least significant bit first
FieldBits(v, w) == [k \in 1..w |-> (v \div Pow2(k - 1)) % 2]

\* a bit sequence zero-padded to the next byte boundary and cut into bytes
BytesOfBits(bits) ==
    LET bit(k) == IF k <= Len(bits) THEN bits[k] ELSE 0
    IN  [j \in 1..((Len(bits) + 7) \div 8) |->
            bit(8 * j - 7) + 2 * bit(8 * j - 6) + 4 * bit(8 * j - 5) + 8 * bit(8 * j - 4)
            + 16 * bit(8 * j - 3) + 32 * bit(8 * j - 2) + 64 * bit(8 * j - 1)
            + 128 * bit(8 * j)]

\* the accumulator holds no bit at or above position nbits
Clean(p) == \A b \in p.buffer : b < p.nbits

----------------------------------------------------------------------------
(* Claims about the bit packer, checked under SpecPacker *)

\* the reference packing of a run of write_bits calls: the low nbits bits of each value
RECURSIVE RefBits(_)
RefBits(cs) ==
    IF cs = <<>> THEN <<>>
    ELSE BitsOfWord(cs[1].bits, cs[1].nbits) \o RefBits(Tail(cs))

\* the calls made are write_bits calls followed by one flush
WritesThenFlush ==
    /\ Len(calls) >= 1
    /\ calls[Len(calls)].op = "flush"
    /\ \A k \in 1..(Len(calls) - 1) : calls[k].op = "write_bits"

\* every value written has no bit at or above its width
ValuesFit == \A k \in 1..Len(calls) : \A b \in calls[k].bits : b < calls[k].nbits

\* C6 as stated: after any write_bits calls (widths <= 64, any 64-bit values) and a flush,
\* the chunk is the reference packing of the low width bits of the values; bits of a value
\* at or above its width change nothing.
C6_AnyValuePacked ==
    WritesThenFlush =>
        chunk_buffer = BytesOfBits(RefBits(SubSeq(calls, 1, Len(calls) - 1)))

\* C6 amended: after write_bits calls whose values are below 2^width and a flush, the
\* chunk is the reference packing: the values' low width bits, least significant first,
\* zero-padded to a byte boundary and cut into bytes.
C6_FittingValuesPacked ==
    (WritesThenFlush /\ ValuesFit) =>
        chunk_buffer = BytesOfBits(RefBits(SubSeq(calls, 1, Len(calls) - 1)))

\* C6 witness: two fitting writes of 57 and 33 bits, a carry over the 64-bit boundary,
\* and a flush that pads 90 bits to 12 bytes
C6_Witness ==
    /\ WritesThenFlush /\ ValuesFit /\ Len(calls) = 3
    /\ calls[1].nbits = 57 /\ calls[1].bits = 0..56
    /\ calls[2].nbits = 33 /\ calls[2].bits = 0..32
    /\ chunk_buffer = [k \in 1..12 |-> IF k = 12 THEN 3 ELSE 255]

\* C7: after every write_bits (width 0..64) and flush the held-bit count is in [0, 64) and
\* the u8 sum never overflows; a write that brings the count to 64 or more appends exactly
\* 8 bytes and leaves the count 64 lower, any other write appends nothing.  Checked under
\* SpecHeld, where calls' is the call the step makes.
C7_HeldBits ==
    /\ [](nbits \in 0..63)
    /\ [][ /\ calls'[1].op = "write_bits" =>
                LET n == calls'[1].nbits
                IN  /\ nbits + n < 256
                    /\ IF nbits + n >= 64
                       THEN /\ Len(chunk_buffer') = Len(chunk_buffer) + 8
                            /\ SubSeq(chunk_buffer', 1, Len(chunk_buffer)) = chunk_buffer
                            /\ nbits' = nbits + n - 64
                       ELSE /\ chunk_buffer' = chunk_buffer
                            /\ nbits' = nbits + n
           /\ calls'[1].op = "flush" =>
                /\ nbits' = 0
                /\ Len(chunk_buffer') = Len(chunk_buffer) + (nbits + 7) \div 8
                /\ SubSeq(chunk_buffer', 1, Len(chunk_buffer)) = chunk_buffer
         ]_vars

\* C7 witness: a write of 64 bits onto 63 held bits flushed 8 bytes and left 63 bits
C7_Witness ==
    /\ pc = "packer" /\ Len(calls) = 1
    /\ calls[1].op = "write_bits" /\ calls[1].nbits = 64
    /\ nbits = 63 /\ Len(chunk_buffer) = 8

\* the call a step of SpecPacker makes is the last of calls'
StepIs(op) == Len(calls') = Len(calls) + 1 /\ calls'[Len(calls')].op = op

\* the flat tree descriptor: 1-bit 0, 4-bit 8, eleven 3-bit 0, 3-bit 1, 1-bit 1, 3-bit 3,
\* 8-bit 254
FlatTreeBits ==
    <<0>> \o <<0, 0, 0, 1>>
    \o <<0, 0, 0,  0, 0, 0,  0, 0, 0,  0, 0, 0,  0, 0, 0,  0, 0, 0>>
    \o <<0, 0, 0,  0, 0, 0,  0, 0, 0,  0, 0, 0,  0, 0, 0>>
    \o <<1, 0, 0>> \o <<1>> \o <<1, 1, 0>> \o <<0, 1, 1, 1, 1, 1, 1, 1>>

\* C9 as stated: in any packer state write_flat_huffman_tree appends exactly the fields
\* 0/1, 8/4, eleven 0/3, 1/3, 1/1, 3/3, 254/8, and appends 26 bits in all.
C9_Flat26Bits ==
    [][ StepIs("flat") =>
          /\ StreamOf(Packer') = StreamOf(Packer) \o FlatTreeBits
          /\ Len(StreamOf(Packer')) = Len(StreamOf(Packer)) + 26 ]_vars

\* C9 amended: in any packer state whose accumulator holds no bit above the held count
\* (every state that writes of values below 2^width reach), write_flat_huffman_tree
\* appends exactly those fields and nothing else, 53 bits in all.
C9_Flat53Bits ==
    [][ (StepIs("flat") /\ Clean(Packer)) =>
          /\ StreamOf(Packer') = StreamOf(Packer) \o FlatTreeBits
          /\ Len(StreamOf(Packer')) = Len(StreamOf(Packer)) + 53 ]_vars

\* C9 witness: the descriptor written onto 57 held bits (all ones): 8 bytes are flushed,
\* 46 bits stay, and byte 8 holds bit 56 and the 1 of the 4-bit field 8
C9_Witness ==
    /\ Len(calls) = 2 /\ calls[1].op = "write_bits" /\ calls[2].op = "flat"
    /\ calls[1].nbits = 57 /\ calls[1].bits = 0..56
    /\ Len(chunk_buffer) = 8 /\ nbits = 46
    /\ chunk_buffer[8] = 33
    /\ StreamOf(Packer) = BitsOfWord(0..56, 57) \o FlatTreeBits

----------------------------------------------------------------------------
(* encode_lossless *)

\* the largest side encode_lossless accepts (`width > 16383`, `height > 16383`)
MaxSide == 16383

\* the color types of the model: the four encode_lossless supports, and Rgb16
ColorTypes == {"L8", "La8", "Rgb8", "Rgba8", "Rgb16"}

\* ColorType::channel_count
channel_count(c) ==
    CASE c = "L8" -> 1 [] c = "La8" -> 2 [] c = "Rgb8" -> 3 [] c = "Rgba8" -> 4
      [] c = "Rgb16" -> 3

\* SampleLayout::row_major_packed(channels, w, h).fits(len)
fits(channels, w, h, len) == len = w * h * channels

\* the validation of encode_lossless without the test `width == 0`
DimensionMismatch_nozero(d, w, h, c) ==
    \/ w > MaxSide
    \/ h = 0
    \/ h > MaxSide
    \/ ~fits(channel_count(c), w, h, Len(d))

\* the validation of encode_lossless without the test of the buffer length
DimensionMismatch_nofits(d, w, h, c) ==
    \/ w = 0
    \/ w > MaxSide
    \/ h = 0
    \/ h > MaxSide

\* the condition of the first `if` of encode_lossless
DimensionMismatch(d, w, h, c) ==
    \/ w = 0
    \/ w > MaxSide
    \/ h = 0
    \/ h > MaxSide
    \/ ~fits(channel_count(c), w, h, Len(d))

\* the arms of `match color_type` that return (is_color, is_alpha)
Supported(c) == c \in {"L8", "La8", "Rgb8", "Rgba8"}
is_color(c) == c \in {"Rgb8", "Rgba8"}
is_alpha(c) == c \in {"La8", "Rgba8"}

\* the write_bits calls of lines 169-186: signature, dimensions, alpha flag, version,
\* transforms, color cache, meta-huffman codes
HeaderFields(w, h, c) ==
    << <<47, 8>>, <<w - 1, 14>>, <<h - 1, 14>> >>
    \o << <<IF is_alpha(c) THEN 1 ELSE 0, 1>>, <<0, 3>> >>
    \o (IF ~is_color(c) THEN << <<5, 3>> >> ELSE << >>)
    \o << <<0, 1>> >>
    \o << <<0, 1>> >>
    \o << <<0, 1>> >>

\* the huffman codes, with the alpha tree chosen by is_color
TreesFields_alphaswap(c) ==
    FlatFields
    \o (IF is_color(c)
        THEN FlatFields \o FlatFields
        ELSE SingleEntryFields(0) \o SingleEntryFields(0))
    \o (IF is_color(c) THEN FlatFields ELSE SingleEntryFields(255))
    \o SingleEntryFields(0)

\* the write_bits calls of lines 189-202, the huffman codes
TreesFields(c) ==
    FlatFields
    \o (IF is_color(c)
        THEN FlatFields \o FlatFields
        ELSE SingleEntryFields(0) \o SingleEntryFields(0))
    \o (IF is_alpha(c) THEN FlatFields ELSE SingleEntryFields(255))
    \o SingleEntryFields(0)

\* the number of iterations of the image-data loop: `for &pixel in buf`, chunks_exact(n)
NumPixels(d, c) == Len(d) \div channel_count(c)

\* iteration k (from 0) of the image-data loop, with red written before green
PixelFields_rgb(d, k, c) ==
    LET px(j) == <<ReverseBits(d[k * channel_count(c) + j + 1]), 8>>
    IN  CASE c = "L8"    -> << px(0) >>
          [] c = "La8"   -> << px(0), px(1) >>
          [] c = "Rgb8"  -> << px(0), px(1), px(2) >>
          [] c = "Rgba8" -> << px(0), px(1), px(2), px(3) >>

\* the write_bits calls of iteration k (from 0) of the image-data loop, lines 205-233
PixelFields(d, k, c) ==
    LET px(j) == <<ReverseBits(d[k * channel_count(c) + j + 1]), 8>>
    IN  CASE c = "L8"    -> << px(0) >>
          [] c = "La8"   -> << px(0), px(1) >>
          [] c = "Rgb8"  -> << px(1), px(0), px(2) >>
          [] c = "Rgba8" -> << px(1), px(0), px(2), px(3) >>

\* flush, with no padding of an odd chunk
FinishChunk_nopad(p) == flush(p).chunk_buffer

\* flush, then the padding of an odd chunk with one zero byte
FinishChunk(p) ==
    LET cb == flush(p).chunk_buffer
    IN  IF Len(cb) % 2 = 1 THEN Append(cb, 0) ELSE cb

\* the six write_all calls: RIFF, size, WEBP, VP8L, size, chunk
Framing(cb) ==
    <<82, 73, 70, 70>> \o ToLeBytes32(Len(cb) + 12) \o <<87, 69, 66, 80>>
      \o <<86, 80, 56, 76>> \o ToLeBytes32(Len(cb)) \o cb

----------------------------------------------------------------------------
(* Spec: one call of encode with the lossless quality *)

\* byte values of the small pixel buffers
ByteVals == {0, 128, 255}

Zeros(n) == [k \in 1..n |-> 0]

\* the small images: every side, color type and buffer within the bounds
SmallImages ==
    [data : UNION {[1..n -> ByteVals] : n \in 0..MaxLen},
     width : 0..MaxDim, height : 0..MaxDim, color : ColorTypes]

\* images with a side at the limit of the format, filled with zero bytes
BigImages ==
    {[data |-> Zeros(s[1] * s[2] + e), width |-> s[1], height |-> s[2], color |-> "L8"] :
        s \in ({16383, 16384, 16385} \X {1}) \cup ({1} \X {16384, 16385}),
        e \in {-1, 0, 1}}
    \cup [data : {<<>>, <<0, 0, 0>>}, width : {1, 16384, 16385},
          height : {16384, 16385}, color : {"Rgb8", "Rgb16"}]

Images == SmallImages \cup BigImages

Init ==
    /\ pc = "new"
    /\ chunk_buffer = <<>> /\ buffer = {} /\ nbits = 0
    /\ inner = <<>> /\ result = "none"
    /\ data = <<>> /\ width = 0 /\ height = 0 /\ color = "none" /\ i = 0
    /\ calls = <<>>

SetArgs(img) ==
    /\ data' = img.data /\ width' = img.width
    /\ height' = img.height /\ color' = img.color

\* encode_lossless returns the dimension-mismatch error
RejectDimensions ==
    /\ pc = "new"
    /\ \E img \in Images :
         /\ DimensionMismatch(img.data, img.width, img.height, img.color)
         /\ SetArgs(img)
    /\ pc' = "done" /\ result' = "DimensionMismatch"
    /\ UNCHANGED <<chunk_buffer, buffer, nbits, inner, i, calls>>

\* encode_lossless returns the unsupported-color error
RejectColor ==
    /\ pc = "new"
    /\ \E img \in Images :
         /\ ~DimensionMismatch(img.data, img.width, img.height, img.color)
         /\ ~Supported(img.color)
         /\ SetArgs(img)
    /\ pc' = "done" /\ result' = "Unsupported"
    /\ UNCHANGED <<chunk_buffer, buffer, nbits, inner, i, calls>>

\* encode_lossless passes the checks and writes the header bits
BeginImage ==
    /\ pc = "new"
    /\ \E img \in Images :
         /\ ~DimensionMismatch(img.data, img.width, img.height, img.color)
         /\ Supported(img.color)
         /\ SetArgs(img)
         /\ SetPacker(WriteAll(Packer, HeaderFields(img.width, img.height, img.color)))
    /\ pc' = "trees"
    /\ UNCHANGED <<inner, result, i, calls>>

\* the five huffman-tree descriptors
EmitTrees ==
    /\ pc = "trees"
    /\ SetPacker(WriteAll(Packer, TreesFields(color)))
    /\ pc' = "pixels"
    /\ UNCHANGED <<inner, result, data, width, height, color, i, calls>>

\* one iteration of the image-data loop
EmitPixel ==
    /\ pc = "pixels" /\ i < NumPixels(data, color)
    /\ SetPacker(WriteAll(Packer, PixelFields(data, i, color)))
    /\ i' = i + 1
    /\ UNCHANGED <<pc, inner, result, data, width, height, color, calls>>

\* flush, padding, the container framing, Ok(())
Finish ==
    /\ pc = "pixels" /\ i = NumPixels(data, color)
    /\ LET cb == FinishChunk(Packer)
       IN  /\ chunk_buffer' = cb /\ buffer' = {} /\ nbits' = 0
           /\ inner' = inner \o Framing(cb)
    /\ pc' = "done" /\ result' = "Ok"
    /\ UNCHANGED <<data, width, height, color, i, calls>>

Next == RejectDimensions \/ RejectColor \/ BeginImage \/ EmitTrees \/ EmitPixel \/ Finish

Spec == Init /\ [][Next]_vars

----------------------------------------------------------------------------
(* Claims about encode_lossless, checked under Spec *)

\* the call returned r
Returned(r) == pc = "done" /\ result = r

\* channel count of the supported color descriptors: 1, 2, 3, 4
Channels(c) == CASE c = "L8" -> 1 [] c = "La8" -> 2 [] c = "Rgb8" -> 3 [] c = "Rgba8" -> 4

\* C1 as stated: the lossless encoding of the 1x1 Rgb8 buffer [255,0,0] and of the 1x1
\* Rgba8 buffer [255,0,0,128] are the two 36-byte reference vectors of the test
\* webp_lossless_deterministic.
C1_ReferenceVectors ==
    /\ (Returned("Ok") /\ color = "Rgb8" /\ width = 1 /\ height = 1 /\ data = <<255, 0, 0>>)
        => inner = <<82, 73, 70, 70, 28, 0, 0, 0, 87, 69, 66, 80, 86, 80, 56, 76, 15, 0, 0, 0,
                     47, 0, 0, 0, 0, 7, 16, 253, 143, 254, 7, 34, 162, 255, 1, 0>>
    /\ (Returned("Ok") /\ color = "Rgba8" /\ width = 1 /\ height = 1
           /\ data = <<255, 0, 0, 128>>)
        => inner = <<82, 73, 70, 70, 28, 0, 0, 0, 87, 69, 66, 80, 86, 80, 56, 76, 15, 0, 0, 0,
                     47, 0, 0, 0, 16, 7, 16, 253, 143, 2, 6, 34, 162, 255, 1, 0>>

\* C2: for a supported color descriptor and a buffer whose length is not
\* width*height*channel_count, shorter or longer, the call fails with dimension-mismatch.
C2_SizeMismatchRejected ==
    (pc = "done" /\ Supported(color) /\ Len(data) # width * height * Channels(color))
        => result = "DimensionMismatch"

\* C2 witness: a 1x1 Rgb8 call with a buffer of 4 bytes, one too long, was rejected
C2_Witness ==
    /\ Returned("DimensionMismatch") /\ color = "Rgb8" /\ width = 1 /\ height = 1
    /\ Len(data) = 4

\* C3 as stated: every width and height in [1, 16384] with a supported color descriptor
\* and a buffer of exactly width*height*channel_count bytes is accepted.
C3_ValidAccepted ==
    (pc = "done" /\ width \in 1..16384 /\ height \in 1..16384 /\ Supported(color)
        /\ Len(data) = width * height * Channels(color))
        => result = "Ok"

\* C4: a width or height of 0 or above 16384 fails with dimension-mismatch, and the sink
\* has received no byte when the call returns.
C4_BadDimensionsRejected ==
    (pc = "done" /\ (width = 0 \/ width > 16384 \/ height = 0 \/ height > 16384))
        => (result = "DimensionMismatch" /\ inner = <<>>)

\* C4 witness: a 16385x1 L8 call with a buffer of exactly 16385 bytes was rejected
C4_Witness ==
    /\ Returned("DimensionMismatch") /\ color = "L8" /\ width = 16385 /\ height = 1
    /\ Len(data) = 16385 /\ inner = <<>>

\* the number a 4-byte little-endian field at bytes k..k+3 of the sink holds
Le32At(k) == inner[k] + 256 * inner[k + 1] + 65536 * inner[k + 2] + 16777216 * inner[k + 3]

\* number of header and flag bits: 8 + 14 + 14 + 1 + 3, 3 more for L8/La8, then 1 + 1 + 1
HeaderLen(c) == IF c \in {"L8", "La8"} THEN 46 ELSE 43

\* the single-entry descriptor of symbol s: tag 1 in 2 bits, then flag 0 and the 1-bit
\* symbol for s in {0, 1}, else flag 1 and the 8-bit symbol
SingleEntryBits(s) ==
    <<1, 0>> \o (IF s \in {0, 1} THEN <<0, s>> ELSE <<1>> \o FieldBits(s, 8))

\* the five descriptors: green, red, blue, alpha, distance
TreesBits(c) ==
    FlatTreeBits
    \o (IF c \in {"Rgb8", "Rgba8"} THEN FlatTreeBits ELSE SingleEntryBits(0))
    \o (IF c \in {"Rgb8", "Rgba8"} THEN FlatTreeBits ELSE SingleEntryBits(0))
    \o (IF c \in {"La8", "Rgba8"} THEN FlatTreeBits ELSE SingleEntryBits(255))
    \o SingleEntryBits(0)

\* bit k (from 0) of the VP8L sub-chunk the sink received, after the 20 framing bytes
ChunkBit(k) == BitAt(inner, 160 + k)

\* number of bits of the header, the descriptors and the payload of width*height pixels
StreamLen == HeaderLen(color) + Len(TreesBits(color)) + 8 * Channels(color) * width * height

\* number of bits the call wrote to the packer: header, descriptors, and 8 bits for each
\* channel of each pixel of the buffer
WrittenBits ==
    HeaderLen(color) + Len(TreesBits(color))
        + 8 * Channels(color) * (Len(data) \div Channels(color))

TrySymbols == {0, 1, 2, 127, 128, 254, 255}

SourceByte(c, j) ==
    CASE c = "L8"    -> <<0>>[j + 1]
      [] c = "La8"   -> <<0, 1>>[j + 1]
      [] c = "Rgb8"  -> <<1, 0, 2>>[j + 1]
      [] c = "Rgba8" -> <<1, 0, 2, 3>>[j + 1]

====
